---- MODULE Spec2Model ----
(***************************************************************************)
(* Water-Monitoring-Prototype: the submission ledger, the monthly rollups  *)
(* computed from it, the bacteriological corrections and the inspector     *)
(* task table of src/app.py (SQLite code path), as a state machine.        *)
(*                                                                         *)
(* One action per Flask handler.  A handler's caller is the Flask session  *)
(* of the request: a user id of the users table, or Anon when the session  *)
(* carries no 'user_id'.  Every handler records its HTTP response in resp. *)
(* Socket.IO clients join and leave rooms; socketio.emit(..., room=r) sends *)
(* an event to the clients that are in room r when it is called.           *)
(***************************************************************************)
EXTENDS Integers, Sequences, FiniteSets, TLC

VARIABLES
    ledger,     \* table inspection_submissions: sequence of rows, row id = index
    signatures, \* table inspector_signatures: sequence of rows
    tasks,      \* table inspector_tasks: sequence of rows, row id = index
    now,        \* wall clock: [year, month]
    resp,       \* response of the last request (or the last socket event handled)
    rooms,      \* Socket.IO rooms: room name -> set of connected clients (sids)
    inbox,      \* per client, the events the server has sent to it, in order
    inflight    \* requests between two of their steps: submits that have
                \* committed and not yet emitted, corrections that have read
                \* the current values and not yet written

vars == <<ledger, signatures, tasks, now, resp, rooms, inbox, inflight>>

(***************************************************************************)
(* Bounds                                                                  *)
(***************************************************************************)
MaxSubs == 2
MaxTasks == 2

(***************************************************************************)
(* Entity catalog: users and water supplies as init_db populates them.     *)
(***************************************************************************)
\* SQL NULL / JSON null; a non-null SQL value v of an aggregate is <<v>>
Null == <<>>
Anon == 0

\* users: 1 = 'admin', 2 = 'trelawny1'
users ==
    [u \in {1, 2} |->
        IF u = 1 THEN [role |-> "admin", parish |-> "Westmoreland"]
        ELSE [role |-> "inspector", parish |-> "Trelawny"]]

UserIds == DOMAIN users
Callers == UserIds \cup {Anon}

\* water_supplies: 1 = 'Roaring River I & II', 2 = 'Rio Bueno'
water_supplies ==
    [s \in {1, 2} |->
        IF s = 1
        THEN [type |-> "treated", agency |-> "NWC",
              name |-> "Roaring River I & II", parish |-> "Westmoreland"]
        ELSE [type |-> "treated", agency |-> "NWC",
              name |-> "Rio Bueno", parish |-> "Trelawny"]]

SupplyIds == DOMAIN water_supplies

\* a supply id that no row of water_supplies carries
NoSuchSupply == 99

Authenticated(caller) == caller \in UserIds

(***************************************************************************)
(* Text formatting used by the rollup queries.  Strings of digits are      *)
(* sequences of digits.                                                    *)
(***************************************************************************)
RECURSIVE Str(_)
\* str(n) for n >= 0
Str(n) == IF n < 10 THEN <<n>> ELSE Append(Str(n \div 10), n % 10)

RECURSIVE ZeroPad(_, _)
ZeroPad(s, width) == IF Len(s) >= width THEN s ELSE ZeroPad(<<0>> \o s, width)

\* f"{month:02d}"
Format02d(n) == ZeroPad(Str(n), 2)

\* strftime('%m', d) and strftime('%Y', d) of a stored DATE
StrftimeMonth(d) == ZeroPad(Str(d.month), 2)
StrftimeYear(d) == ZeroPad(Str(d.year), 4)

(***************************************************************************)
(* Request payloads.                                                       *)
(***************************************************************************)
\* JSON bodies of POST /api/submit-inspection (count fields and remarks)
Payloads ==
    { [visits |-> 2, chlorine_total |-> 5, chlorine_positive |-> 0,
       chlorine_negative |-> 0, bacteriological_positive |-> 2,
       bacteriological_negative |-> 1, bacteriological_pending |-> 5,
       bacteriological_rejected |-> 1, bacteriological_broken |-> 1,
       ph_satisfactory |-> 2, ph_non_satisfactory |-> 0,
       chemical_satisfactory |-> 1, chemical_non_satisfactory |-> 0,
       turbidity_satisfactory |-> 1, turbidity_non_satisfactory |-> 0,
       temperature_satisfactory |-> 1, temperature_non_satisfactory |-> 0,
       remarks |-> ""],
      [visits |-> 1, chlorine_total |-> 3, chlorine_positive |-> 2,
       chlorine_negative |-> 1, bacteriological_positive |-> 0,
       bacteriological_negative |-> 0, bacteriological_pending |-> 0,
       bacteriological_rejected |-> 0, bacteriological_broken |-> 0,
       ph_satisfactory |-> 0, ph_non_satisfactory |-> 1,
       chemical_satisfactory |-> 0, chemical_non_satisfactory |-> 1,
       turbidity_satisfactory |-> 0, turbidity_non_satisfactory |-> 1,
       temperature_satisfactory |-> 0, temperature_non_satisfactory |-> 1,
       remarks |-> "ok"] }

\* JSON bodies of POST /api/update-sample/<id>:
\* <<bacteriological_positive_add, bacteriological_negative_add>>
Adds == { <<3, 3>>, <<2, 3>>, <<0, 2>> }

\* JSON bodies of POST /api/update-bacteriological
Overwrites ==
    { [bacteriological_positive |-> 1, bacteriological_negative |-> 0,
       bacteriological_pending |-> 3, bacteriological_status |-> "complete"] }

\* <year, month> of GET /api/report/<int:year>/<int:month>
ReportPeriods == { <<2025, 3>>, <<2025, 4>>, <<2026, 3>> }

(***************************************************************************)
(* Responses.                                                              *)
(***************************************************************************)
Response(op, caller, args, status, body) ==
    [op |-> op, caller |-> caller, args |-> args, status |-> status, body |-> body]

NoResponse == Response("none", Anon, <<>>, 0, Null)

(***************************************************************************)
(* The clock.                                                              *)
(***************************************************************************)
NextMonth(t) ==
    IF t.month = 12 THEN [year |-> t.year + 1, month |-> 1]
    ELSE [year |-> t.year, month |-> t.month + 1]

NextYear(t) == [year |-> t.year + 1, month |-> t.month]

\* date('now'): the calendar day, of which the rollups read year and month
DateNow == [year |-> now.year, month |-> now.month]

\* CURRENT_TIMESTAMP: grows with the clock
CurrentTimestamp == now.year * 12 + now.month

\* the clock readings the requests are served at: March 2025, the month after
\* it and the same month a year later
ClockReadings ==
    << [year |-> 2025, month |-> 3],
       NextMonth([year |-> 2025, month |-> 3]),
       NextYear([year |-> 2025, month |-> 3]) >>

\* time passes between two requests
Tick ==
    /\ \E i, j \in DOMAIN ClockReadings :
          /\ ClockReadings[i] = now
          /\ i < j
          /\ now' = ClockReadings[j]
    /\ UNCHANGED <<ledger, signatures, tasks, resp, rooms, inbox, inflight>>

(***************************************************************************)
(* SQL helpers.                                                            *)
(***************************************************************************)
\* SELECT * FROM water_supplies row, as dict(supply)
SupplyRow(s) ==
    [id |-> s, name |-> water_supplies[s].name, type |-> water_supplies[s].type,
     agency |-> water_supplies[s].agency, parish |-> water_supplies[s].parish]

\* the supply ids in the order ORDER BY ws.type, ws.agency, ws.name gives
\* ('Rio Bueno' sorts before 'Roaring River I & II')
OrderedSupplies == <<2, 1>>

\* the columns of inspection_submissions the rollup queries read
SubColumns ==
    {"visits", "chlorine_total", "chlorine_positive", "chlorine_negative",
     "bacteriological_positive", "bacteriological_negative",
     "bacteriological_pending", "remarks", "created_at"}

\* a joined row: every sub.* column as <<value>>, or NULL
SubRow(r) == [c \in SubColumns |-> <<r[c]>>]
NullSubRow == [c \in SubColumns |-> Null]

\* JoinCondition without the year test: every year's month falls in one group
JoinCondition_AnyYear(r, s, mm, yyyy) ==
    /\ r.supply_id = s
    /\ StrftimeMonth(r.submission_date) = mm

\* JoinCondition without the month test: a whole year falls in one group
JoinCondition_AnyMonth(r, s, mm, yyyy) ==
    /\ r.supply_id = s
    /\ StrftimeYear(r.submission_date) = yyyy

\* ON ws.id = sub.supply_id AND strftime('%m', sub.submission_date) = ?
\*                          AND strftime('%Y', sub.submission_date) = ?
JoinCondition(r, s, mm, yyyy) ==
    /\ r.supply_id = s
    /\ StrftimeMonth(r.submission_date) = mm
    /\ StrftimeYear(r.submission_date) = yyyy

\* LeftJoin as an inner JOIN: no row for a supply nothing matches
LeftJoin_Inner(led, s, mm, yyyy) ==
    LET matching == SelectSeq(led, LAMBDA r : JoinCondition(r, s, mm, yyyy))
    IN [i \in DOMAIN matching |-> SubRow(matching[i])]

\* the rows of water_supplies ws LEFT JOIN inspection_submissions sub ON ... for
\* supply s: its matching submissions in table order, or one row whose sub.*
\* columns are all NULL when nothing matches
LeftJoin(led, s, mm, yyyy) ==
    LET matching == SelectSeq(led, LAMBDA r : JoinCondition(r, s, mm, yyyy))
    IN IF matching = <<>> THEN <<NullSubRow>>
       ELSE [i \in DOMAIN matching |-> SubRow(matching[i])]

RECURSIVE SqlSum(_, _)
\* SUM(sub.col) over a group: NULLs are skipped, NULL when there is no other value
SqlSum(rows, col) ==
    IF rows = <<>> THEN Null
    ELSE LET v == Head(rows)[col]
             rest == SqlSum(Tail(rows), col)
         IN IF v = Null THEN rest
            ELSE IF rest = Null THEN v
            ELSE <<v[1] + rest[1]>>

RECURSIVE SqlMax(_, _)
\* MAX(sub.col) over a group: NULLs are skipped, NULL when there is no other value
SqlMax(rows, col) ==
    IF rows = <<>> THEN Null
    ELSE LET v == Head(rows)[col]
             rest == SqlMax(Tail(rows), col)
         IN IF v = Null THEN rest
            ELSE IF rest = Null \/ v[1] >= rest[1] THEN v
            ELSE rest

RECURSIVE GroupConcat(_, _)
\* GROUP_CONCAT(sub.col, '; '): the list of the non-NULL values (empty strings
\* included) that SQLite joins with '; ', as <<list>>; NULL when there is none
GroupConcat(rows, col) ==
    IF rows = <<>> THEN Null
    ELSE LET v == Head(rows)[col]
             rest == GroupConcat(Tail(rows), col)
         IN IF v = Null THEN rest
            ELSE IF rest = Null THEN <<v>>
            ELSE <<v \o rest[1]>>

\* COALESCE(x, d)
Coalesce(x, d) == IF x = Null THEN d ELSE x[1]

\* one row of the GROUP BY ws.id result of the query of get_monthly_data: the
\* sums of the seven count columns and MAX(created_at) over the group rows
RollupRow(s, rows) ==
    [supply_id |-> s,
     supply_name |-> water_supplies[s].name,
     type |-> water_supplies[s].type,
     agency |-> water_supplies[s].agency,
     visits |-> Coalesce(SqlSum(rows, "visits"), 0),
     chlorine_total |-> Coalesce(SqlSum(rows, "chlorine_total"), 0),
     chlorine_positive |-> Coalesce(SqlSum(rows, "chlorine_positive"), 0),
     chlorine_negative |-> Coalesce(SqlSum(rows, "chlorine_negative"), 0),
     bacteriological_positive |->
         Coalesce(SqlSum(rows, "bacteriological_positive"), 0),
     bacteriological_negative |->
         Coalesce(SqlSum(rows, "bacteriological_negative"), 0),
     bacteriological_pending |->
         Coalesce(SqlSum(rows, "bacteriological_pending"), 0),
     last_updated |-> SqlMax(rows, "created_at")]

\* the same row of the query of get_monthly_report, which adds the remarks
ReportRow(s, rows) ==
    LET r == RollupRow(s, rows)
    IN [supply_id |-> r.supply_id, supply_name |-> r.supply_name,
        type |-> r.type, agency |-> r.agency, visits |-> r.visits,
        chlorine_total |-> r.chlorine_total,
        chlorine_positive |-> r.chlorine_positive,
        chlorine_negative |-> r.chlorine_negative,
        bacteriological_positive |-> r.bacteriological_positive,
        bacteriological_negative |-> r.bacteriological_negative,
        bacteriological_pending |-> r.bacteriological_pending,
        remarks |-> GroupConcat(rows, "remarks"),
        last_updated |-> r.last_updated]

\* the supplies that have a group in the query result (GROUP BY ws.id makes one
\* group per supply with joined rows), in the order of ORDER BY
GroupedSupplies(led, mm, yyyy) ==
    SelectSeq(OrderedSupplies, LAMBDA s : LeftJoin(led, s, mm, yyyy) # <<>>)

\* the rollup query of get_monthly_data on ledger led for f"{month:02d}", str(year)
MonthlyDataQuery(led, month, year) ==
    LET mm == Format02d(month)
        yyyy == Str(year)
        groups == GroupedSupplies(led, mm, yyyy)
    IN [i \in DOMAIN groups |->
          RollupRow(groups[i], LeftJoin(led, groups[i], mm, yyyy))]

\* the rollup query of get_monthly_report
MonthlyReportQuery(led, month, year) ==
    LET mm == Format02d(month)
        yyyy == Str(year)
        groups == GroupedSupplies(led, mm, yyyy)
    IN [i \in DOMAIN groups |->
          ReportRow(groups[i], LeftJoin(led, groups[i], mm, yyyy))]

\* result[data['supply_id']] = dict(data) for every row of the query
BySupplyId(rows) ==
    [s \in {rows[i].supply_id : i \in DOMAIN rows} |->
        rows[CHOOSE i \in DOMAIN rows :
                 /\ rows[i].supply_id = s
                 /\ \A j \in DOMAIN rows : rows[j].supply_id = s => j <= i]]

(***************************************************************************)
(* Rollup reads.                                                           *)
(***************************************************************************)
\* get_monthly_data that inserts a row while it reads, the way add_sample_data
\* adds rows: here a copy of the newest row
get_monthly_data_Insert(caller) ==
    /\ UNCHANGED <<signatures, tasks, now, rooms, inbox, inflight>>
    /\ ledger' = IF ledger = <<>> \/ Len(ledger) >= MaxSubs THEN ledger
                 ELSE Append(ledger, [ledger[Len(ledger)] EXCEPT
                                         !.id = Len(ledger) + 1])
    /\ resp' = Response("get_monthly_data", caller, <<now.year, now.month>>, 200,
                        BySupplyId(MonthlyDataQuery(ledger', now.month, now.year)))

\* GET /api/monthly-data
get_monthly_data(caller) ==
    /\ UNCHANGED <<ledger, signatures, tasks, now, rooms, inbox, inflight>>
    /\ IF ~Authenticated(caller)
       THEN resp' = Response("get_monthly_data", caller, <<>>, 401, Null)
       ELSE LET month == now.month
                year == now.year
                monthly_data == MonthlyDataQuery(ledger, month, year)
                result == BySupplyId(monthly_data)
            IN resp' = Response("get_monthly_data", caller, <<year, month>>,
                                200, result)

\* GET /api/report/<int:year>/<int:month>
get_monthly_report(caller, year, month) ==
    /\ UNCHANGED <<ledger, signatures, tasks, now, rooms, inbox, inflight>>
    /\ IF ~Authenticated(caller)
       THEN resp' = Response("get_monthly_report", caller, <<year, month>>,
                             401, Null)
       ELSE LET supplies == [i \in DOMAIN OrderedSupplies |->
                                SupplyRow(OrderedSupplies[i])]
                monthly_data == MonthlyReportQuery(ledger, month, year)
            IN resp' = Response("get_monthly_report", caller, <<year, month>>,
                                200, [supplies |-> supplies,
                                      monthly_data |-> monthly_data])

(***************************************************************************)
(* Change notifier: Socket.IO rooms and the events emitted to them.        *)
(***************************************************************************)
\* the connected Socket.IO clients (session ids of the socket server)
Sids == {11, 12}

\* the Flask session each client's connection carries: client 11 has none,
\* client 12 is logged in as the inspector; the socket handlers never read it
SessionOf == [c \in Sids |-> IF c = 11 THEN Anon ELSE 2]

\* the room names clients put in data['room']
RoomNames == {"admin", "Trelawny"}

\* the room every socketio.emit of the handlers names
EmitRoom == "admin"

\* Emitted with the room ignored: a broadcast to every connected client
Emitted_Broadcast(event, data, room) ==
    [c \in Sids |-> Append(inbox[c], [event |-> event, data |-> data])]

\* socketio.emit(event, data, room=room): the inboxes after the server has
\* sent the event to the clients that are in the room now
Emitted(event, data, room) ==
    [c \in Sids |->
        IF c \in rooms[room]
        THEN Append(inbox[c], [event |-> event, data |-> data])
        ELSE inbox[c]]

\* on_leave that takes the client out of every room
on_leave_Disconnect(sid, room) ==
    /\ rooms' = [r \in RoomNames |-> rooms[r] \ {sid}]
    /\ resp' = Response("on_leave", sid, <<room>>, 0, Null)
    /\ UNCHANGED <<ledger, signatures, tasks, now, inbox, inflight>>

\* @socketio.on('join'): join_room(data['room'])
on_join(sid, room) ==
    /\ rooms' = [rooms EXCEPT ![room] = @ \cup {sid}]
    /\ resp' = Response("on_join", sid, <<room>>, 0, Null)
    /\ UNCHANGED <<ledger, signatures, tasks, now, inbox, inflight>>

\* @socketio.on('leave'): leave_room(data['room'])
on_leave(sid, room) ==
    /\ rooms' = [rooms EXCEPT ![room] = @ \ {sid}]
    /\ resp' = Response("on_leave", sid, <<room>>, 0, Null)
    /\ UNCHANGED <<ledger, signatures, tasks, now, inbox, inflight>>

(***************************************************************************)
(* Ledger writes.                                                          *)
(***************************************************************************)
\* the bacteriological_status submit_inspection computes from the payload
BacteriologicalStatus(positive, negative, pending) ==
    IF pending > 0 \/ positive + negative = 0 THEN "pending" ELSE "complete"

\* the row INSERT INTO inspection_submissions stores
NewSubmission(id, caller, supply_id, data) ==
    [id |-> id,
     supply_id |-> supply_id,
     inspector_id |-> caller,
     submission_date |-> DateNow,
     visits |-> data.visits,
     chlorine_total |-> data.chlorine_total,
     chlorine_positive |-> data.chlorine_positive,
     chlorine_negative |-> data.chlorine_negative,
     bacteriological_positive |-> data.bacteriological_positive,
     bacteriological_negative |-> data.bacteriological_negative,
     bacteriological_pending |-> data.bacteriological_pending,
     bacteriological_rejected |-> data.bacteriological_rejected,
     bacteriological_broken |-> data.bacteriological_broken,
     ph_satisfactory |-> data.ph_satisfactory,
     ph_non_satisfactory |-> data.ph_non_satisfactory,
     chemical_satisfactory |-> data.chemical_satisfactory,
     chemical_non_satisfactory |-> data.chemical_non_satisfactory,
     turbidity_satisfactory |-> data.turbidity_satisfactory,
     turbidity_non_satisfactory |-> data.turbidity_non_satisfactory,
     temperature_satisfactory |-> data.temperature_satisfactory,
     temperature_non_satisfactory |-> data.temperature_non_satisfactory,
     bacteriological_status |->
         BacteriologicalStatus(data.bacteriological_positive,
                               data.bacteriological_negative,
                               data.bacteriological_pending),
     remarks |-> data.remarks,
     created_at |-> CurrentTimestamp]

\* SELECT s.*, ws.name as supply_name, ws.type, ws.agency, ... JOIN water_supplies
SubmissionWithSupply(r) ==
    [id |-> r.id, supply_id |-> r.supply_id, inspector_id |-> r.inspector_id,
     submission_date |-> r.submission_date, visits |-> r.visits,
     chlorine_total |-> r.chlorine_total,
     bacteriological_positive |-> r.bacteriological_positive,
     bacteriological_negative |-> r.bacteriological_negative,
     bacteriological_pending |-> r.bacteriological_pending,
     bacteriological_status |-> r.bacteriological_status,
     created_at |-> r.created_at,
     supply_name |-> water_supplies[r.supply_id].name,
     parish |-> water_supplies[r.supply_id].parish]

\* the signature row submit_inspection adds to inspector_signatures
NewSignature(submission_id, caller) ==
    [submission_id |-> submission_id, inspector_id |-> caller,
     action_type |-> "Initial Submission"]

\* submission_data: the inserted row joined with water_supplies and users, or
\* None (Null) when the JOIN finds no supply with the row's supply_id
SubmissionData(row) ==
    IF row.supply_id \in SupplyIds THEN SubmissionWithSupply(row) ELSE Null

\* POST /api/submit-inspection; emit_ok: socketio.emit returns, FALSE: it raises
submit_inspection(caller, supply_id, data, emit_ok) ==
    /\ UNCHANGED <<tasks, now, rooms, inflight>>
    /\ IF ~Authenticated(caller)
       THEN /\ resp' = Response("submit_inspection", caller, <<supply_id>>,
                                401, Null)
            /\ UNCHANGED <<ledger, signatures, inbox>>
       ELSE /\ Len(ledger) < MaxSubs
            /\ LET submission_id == Len(ledger) + 1
                   row == NewSubmission(submission_id, caller, supply_id, data)
                   submission_data == SubmissionData(row)
               IN \* both INSERTs (SQLite enforces no foreign key), the SELECT,
                  \* conn.commit(), conn.close()
                  /\ ledger' = Append(ledger, row)
                  /\ signatures' = Append(signatures,
                                          NewSignature(submission_id, caller))
                  /\ IF submission_data = Null \/ ~emit_ok
                     THEN \* dict(None) or socketio.emit raises after the commit;
                          \* the handler's conn.rollback() on the closed
                          \* connection raises in turn: 500, the rows stay
                          /\ resp' = Response("submit_inspection", caller,
                                              <<supply_id>>, 500, Null)
                          /\ UNCHANGED inbox
                     ELSE /\ inbox' = Emitted("new_submission", submission_data,
                                              EmitRoom)
                          /\ resp' = Response("submit_inspection", caller,
                                              <<supply_id>>, 200, submission_data)

\* submit_inspection up to conn.close(): the rows are committed, the event and
\* the response are still to come
submit_inspection_commit(caller, supply_id, data) ==
    /\ Authenticated(caller)
    /\ Len(ledger) < MaxSubs
    /\ LET submission_id == Len(ledger) + 1
           row == NewSubmission(submission_id, caller, supply_id, data)
       IN /\ ledger' = Append(ledger, row)
          /\ signatures' = Append(signatures, NewSignature(submission_id, caller))
          /\ inflight' = inflight \cup {[op |-> "submit_inspection",
                                         submission_id |-> submission_id,
                                         caller |-> caller,
                                         supply_id |-> supply_id,
                                         submission_data |-> SubmissionData(row)]}
    /\ UNCHANGED <<tasks, now, resp, rooms, inbox>>

\* submit_inspection from socketio.emit on, for the request that committed
\* row submission_id
submit_inspection_emit(submission_id, emit_ok) ==
    \E request \in inflight :
       /\ request.op = "submit_inspection"
       /\ request.submission_id = submission_id
       /\ inflight' = inflight \ {request}
       /\ IF request.submission_data = Null \/ ~emit_ok
          THEN /\ resp' = Response("submit_inspection", request.caller,
                                   <<request.supply_id>>, 500, Null)
               /\ UNCHANGED inbox
          ELSE /\ inbox' = Emitted("new_submission", request.submission_data,
                                   EmitRoom)
               /\ resp' = Response("submit_inspection", request.caller,
                                   <<request.supply_id>>, 200,
                                   request.submission_data)
       /\ UNCHANGED <<ledger, signatures, tasks, now, rooms>>

\* ExceedsPending with >= for >: a correction that resolves every pending sample
\* is refused
ExceedsPending_OrEqual(positive_add, negative_add, current_pending) ==
    positive_add + negative_add >= current_pending

\* ExceedsPending testing each delta alone
ExceedsPending_Each(positive_add, negative_add, current_pending) ==
    positive_add > current_pending \/ negative_add > current_pending

\* if positive_add + negative_add > current_pending: 400
ExceedsPending(positive_add, negative_add, current_pending) ==
    positive_add + negative_add > current_pending

\* NewPending with the negative results left out of the subtraction
NewPending_PositiveOnly(current_pending, positive_add, negative_add) ==
    current_pending - positive_add

\* new_pending = current_pending - (positive_add + negative_add)
NewPending(current_pending, positive_add, negative_add) ==
    current_pending - (positive_add + negative_add)

\* POST /api/update-sample/<int:submission_id>
update_sample_results(caller, submission_id, positive_add, negative_add) ==
    LET args == <<submission_id, positive_add, negative_add>>
        Reply(status, body) ==
            Response("update_sample_results", caller, args, status, body)
    IN
    /\ UNCHANGED <<signatures, tasks, now, rooms, inbox, inflight>>
    /\ IF ~Authenticated(caller)
       THEN resp' = Reply(401, Null) /\ UNCHANGED ledger
       ELSE IF submission_id \notin DOMAIN ledger
       THEN resp' = Reply(404, Null) /\ UNCHANGED ledger
       ELSE LET result == ledger[submission_id]
                current_positive == result.bacteriological_positive
                current_negative == result.bacteriological_negative
                current_pending == result.bacteriological_pending
                new_positive == current_positive + positive_add
                new_negative == current_negative + negative_add
                new_pending == NewPending(current_pending, positive_add,
                                          negative_add)
            IN IF result.inspector_id # caller
               THEN resp' = Reply(403, Null) /\ UNCHANGED ledger
               ELSE IF ExceedsPending(positive_add, negative_add, current_pending)
               THEN resp' = Reply(400, Null) /\ UNCHANGED ledger
               ELSE /\ ledger' = [ledger EXCEPT ![submission_id] =
                          [@ EXCEPT !.bacteriological_positive = new_positive,
                                    !.bacteriological_negative = new_negative,
                                    !.bacteriological_pending = new_pending]]
                    /\ resp' = Reply(200,
                          [bacteriological_positive |-> new_positive,
                           bacteriological_negative |-> new_negative,
                           bacteriological_pending |-> new_pending])

\* the server threads that serve requests at the same time
Threads == {"t1", "t2"}

\* update_sample_results up to the SELECT of the current values, served by
\* thread: the early returns, or the values read kept for the write
update_sample_results_read(thread, caller, submission_id, positive_add, negative_add) ==
    LET args == <<submission_id, positive_add, negative_add>>
        Reply(status, body) ==
            Response("update_sample_results", caller, args, status, body)
    IN
    /\ \A q \in inflight : q.op = "update_sample_results" => q.thread # thread
    /\ UNCHANGED <<ledger, signatures, tasks, now, rooms, inbox>>
    /\ IF ~Authenticated(caller)
       THEN resp' = Reply(401, Null) /\ UNCHANGED inflight
       ELSE IF submission_id \notin DOMAIN ledger
       THEN resp' = Reply(404, Null) /\ UNCHANGED inflight
       ELSE LET result == ledger[submission_id]
            IN IF result.inspector_id # caller
               THEN resp' = Reply(403, Null) /\ UNCHANGED inflight
               ELSE /\ inflight' = inflight \cup
                         {[op |-> "update_sample_results", thread |-> thread,
                           caller |-> caller, submission_id |-> submission_id,
                           positive_add |-> positive_add,
                           negative_add |-> negative_add,
                           current_positive |-> result.bacteriological_positive,
                           current_negative |-> result.bacteriological_negative,
                           current_pending |-> result.bacteriological_pending]}
                    /\ UNCHANGED resp

\* update_sample_results from the validation on, served by thread: the check
\* and the UPDATE use the values the thread read
update_sample_results_write(thread) ==
    \E q \in inflight :
       /\ q.op = "update_sample_results"
       /\ q.thread = thread
       /\ inflight' = inflight \ {q}
       /\ UNCHANGED <<signatures, tasks, now, rooms, inbox>>
       /\ LET args == <<q.submission_id, q.positive_add, q.negative_add>>
              new_positive == q.current_positive + q.positive_add
              new_negative == q.current_negative + q.negative_add
              new_pending == NewPending(q.current_pending, q.positive_add,
                                        q.negative_add)
          IN IF ExceedsPending(q.positive_add, q.negative_add, q.current_pending)
             THEN /\ resp' = Response("update_sample_results", q.caller, args,
                                      400, Null)
                  /\ UNCHANGED ledger
             ELSE /\ ledger' = [ledger EXCEPT ![q.submission_id] =
                        [@ EXCEPT !.bacteriological_positive = new_positive,
                                  !.bacteriological_negative = new_negative,
                                  !.bacteriological_pending = new_pending]]
                  /\ resp' = Response("update_sample_results", q.caller, args,
                         200, [bacteriological_positive |-> new_positive,
                               bacteriological_negative |-> new_negative,
                               bacteriological_pending |-> new_pending])

\* POST /api/update-bacteriological
update_bacteriological(caller, submission_id, data) ==
    LET Reply(status, body) ==
            Response("update_bacteriological", caller, <<submission_id>>,
                     status, body)
    IN
    /\ UNCHANGED <<signatures, tasks, now, rooms, inbox, inflight>>
    /\ IF ~Authenticated(caller)
       THEN resp' = Reply(401, Null) /\ UNCHANGED ledger
       ELSE IF submission_id \notin DOMAIN ledger
       THEN resp' = Reply(404, Null) /\ UNCHANGED ledger
       ELSE IF ledger[submission_id].inspector_id # caller
       THEN resp' = Reply(403, Null) /\ UNCHANGED ledger
       ELSE /\ ledger' = [ledger EXCEPT ![submission_id] =
                  [@ EXCEPT
                     !.bacteriological_positive = data.bacteriological_positive,
                     !.bacteriological_negative = data.bacteriological_negative,
                     !.bacteriological_pending = data.bacteriological_pending,
                     !.bacteriological_status = data.bacteriological_status]]
            /\ resp' = Reply(200, data)

(***************************************************************************)
(* Catalog and ledger scans.                                               *)
(***************************************************************************)
\* GET /api/supplies
get_supplies(caller) ==
    /\ UNCHANGED <<ledger, signatures, tasks, now, rooms, inbox, inflight>>
    /\ IF ~Authenticated(caller)
       THEN resp' = Response("get_supplies", caller, <<>>, 401, Null)
       ELSE LET user_parish == users[caller].parish
                ids == SelectSeq(OrderedSupplies,
                          LAMBDA s : water_supplies[s].parish = user_parish)
                supplies == [i \in DOMAIN ids |-> SupplyRow(ids[i])]
            IN resp' = Response("get_supplies", caller, <<>>, 200, supplies)

\* sampling_points: 1 = 'Tap @ Health Department (old plant)' of supply 1,
\* 2 = 'Tap @ Market' of supply 2
sampling_points ==
    [p \in {1, 2} |->
        IF p = 1 THEN [supply_id |-> 1, name |-> "Tap @ Health Department (old plant)"]
        ELSE [supply_id |-> 2, name |-> "Tap @ Market"]]

\* GET /api/sampling-points/<int:supply_id>: the handler reads no session
get_sampling_points(caller, supply_id) ==
    /\ UNCHANGED <<ledger, signatures, tasks, now, rooms, inbox, inflight>>
    /\ LET ids == {p \in DOMAIN sampling_points :
                     /\ sampling_points[p].supply_id = supply_id
                     /\ supply_id \in SupplyIds}
           result == {[id |-> p, name |-> sampling_points[p].name,
                       supply_name |-> water_supplies[supply_id].name] : p \in ids}
       IN resp' = Response("get_sampling_points", caller, <<supply_id>>, 200,
                           result)

\* JOIN water_supplies ws ON s.supply_id = ws.id: the rows of S with a supply
JoinWaterSupplies(S) == {i \in S : ledger[i].supply_id \in SupplyIds}

\* the sequences ORDER BY s.created_at DESC can give for the rows with ids in S
\* (rows with equal created_at come in either order)
OrderByCreatedAtDesc(S) ==
    { q \in [1..Cardinality(S) -> S] :
        /\ \A i, j \in DOMAIN q : i # j => q[i] # q[j]
        /\ \A i, j \in DOMAIN q :
              i < j => ledger[q[i]].created_at >= ledger[q[j]].created_at }

\* LIMIT n
Limit(q, n) == SubSeq(q, 1, IF Len(q) < n THEN Len(q) ELSE n)

MySubmissionsLimit == 50

\* GET /api/my-submissions
get_my_submissions(caller) ==
    /\ UNCHANGED <<ledger, signatures, tasks, now, rooms, inbox, inflight>>
    /\ IF ~Authenticated(caller)
       THEN resp' = Response("get_my_submissions", caller, <<>>, 401, Null)
       ELSE \E q \in OrderByCreatedAtDesc(JoinWaterSupplies(DOMAIN ledger)) :
              LET ids == Limit(q, MySubmissionsLimit)
                  submissions == [i \in DOMAIN ids |->
                                    SubmissionWithSupply(ledger[ids[i]])]
              IN resp' = Response("get_my_submissions", caller, <<>>, 200,
                                  submissions)

\* GET /api/submissions?supply_id=&limit=   (supply_id Null: not given)
get_submissions(caller, supply_id, limit) ==
    /\ UNCHANGED <<ledger, signatures, tasks, now, rooms, inbox, inflight>>
    /\ IF ~Authenticated(caller)
       THEN resp' = Response("get_submissions", caller, <<supply_id, limit>>,
                             401, Null)
       ELSE LET S == IF supply_id = Null THEN DOMAIN ledger
                     ELSE { i \in DOMAIN ledger :
                              <<ledger[i].supply_id>> = supply_id }
            IN \E q \in OrderByCreatedAtDesc(JoinWaterSupplies(S)) :
                 LET ids == Limit(q, limit)
                     submissions == [i \in DOMAIN ids |->
                                       SubmissionWithSupply(ledger[ids[i]])]
                 IN resp' = Response("get_submissions", caller,
                                     <<supply_id, limit>>, 200, submissions)

\* GET /api/submission/<int:submission_id>
get_submission_details(caller, submission_id) ==
    /\ UNCHANGED <<ledger, signatures, tasks, now, rooms, inbox, inflight>>
    /\ IF ~Authenticated(caller)
       THEN resp' = Response("get_submission_details", caller,
                             <<submission_id>>, 401, Null)
       ELSE IF \/ submission_id \notin JoinWaterSupplies(DOMAIN ledger)
               \/ ledger[submission_id].inspector_id # caller
       THEN resp' = Response("get_submission_details", caller,
                             <<submission_id>>, 404, Null)
       ELSE resp' = Response("get_submission_details", caller,
                             <<submission_id>>, 200,
                             SubmissionWithSupply(ledger[submission_id]))

(***************************************************************************)
(* Inspector tasks.                                                        *)
(***************************************************************************)
\* the tables init_db creates
Tables ==
    {"users", "water_supplies", "monthly_supply_data", "inspection_submissions",
     "inspector_signatures", "sampling_points", "inspector_tasks", "documents"}

\* the tables the SELECT of create_admin_task names after the INSERT committed
CreatedTaskQueryTables == {"inspector_tasks", "users", "wasamoter_supplies"}

\* the tables the SELECTs of the task lists name
TaskListQueryTables == {"inspector_tasks", "users", "water_supplies"}

\* sqlite3.OperationalError: no such table
NoSuchTable(queryTables) == \E t \in queryTables : t \notin Tables

\* JSON bodies of POST /api/admin/tasks; complete = FALSE: a required key
\* (title, inspector_id, priority, due_date) is missing or violates its CHECK
TaskPayloads ==
    [inspector_id : UserIds, supply_id : {Null, <<2>>}, complete : BOOLEAN]

\* SELECT t.*, ... FROM inspector_tasks t JOIN users ... LEFT JOIN water_supplies
TaskWithNames(t) ==
    [id |-> t.id, assigned_to_id |-> t.assigned_to_id, supply_id |-> t.supply_id,
     status |-> t.status, created_by_id |-> t.created_by_id,
     assignee_parish |-> users[t.assigned_to_id].parish,
     supply_parish |-> IF t.supply_id = Null THEN Null
                       ELSE <<water_supplies[t.supply_id[1]].parish>>]

\* IsAdmin without the role: any caller with a session
IsAdmin_AnySession(caller) == Authenticated(caller)

\* 'user_id' in session and session.get('role') == 'admin'
IsAdmin(caller) == Authenticated(caller) /\ users[caller].role = "admin"

\* POST /api/admin/tasks
create_admin_task(caller, data) ==
    /\ UNCHANGED <<ledger, signatures, now, rooms, inflight>>
    /\ IF ~IsAdmin(caller)
       THEN /\ resp' = Response("create_admin_task", caller, <<>>, 403, Null)
            /\ UNCHANGED <<tasks, inbox>>
       ELSE IF ~data.complete
       THEN \* KeyError or IntegrityError before the commit: rollback, 500
            /\ resp' = Response("create_admin_task", caller, <<>>, 500, Null)
            /\ UNCHANGED <<tasks, inbox>>
       ELSE /\ Len(tasks) < MaxTasks
            /\ LET task_id == Len(tasks) + 1
                   row == [id |-> task_id,
                           assigned_to_id |-> data.inspector_id,
                           supply_id |-> data.supply_id,
                           status |-> "pending",
                           created_by_id |-> caller,
                           created_at |-> CurrentTimestamp]
               IN \* INSERT, then conn.commit()
                  /\ tasks' = Append(tasks, row)
                  \* the SELECT of the created task runs after the commit
                  /\ IF NoSuchTable(CreatedTaskQueryTables)
                     THEN /\ resp' = Response("create_admin_task", caller,
                                              <<>>, 500, Null)
                          /\ UNCHANGED inbox
                     ELSE /\ inbox' = Emitted("new_task", TaskWithNames(row),
                                              EmitRoom)
                          /\ resp' = Response("create_admin_task", caller,
                                              <<>>, 200, TaskWithNames(row))

\* UpdateTaskStatus with WHERE id = ? alone
UpdateTaskStatus_AnyCaller(task_id, user_id, status) ==
    [i \in DOMAIN tasks |->
        IF tasks[i].id = task_id THEN [tasks[i] EXCEPT !.status = status]
        ELSE tasks[i]]

\* UPDATE inspector_tasks SET status = ? WHERE id = ? AND assigned_to_id = ?
UpdateTaskStatus(task_id, user_id, status) ==
    [i \in DOMAIN tasks |->
        IF tasks[i].id = task_id /\ tasks[i].assigned_to_id = user_id
        THEN [tasks[i] EXCEPT !.status = status]
        ELSE tasks[i]]

\* the body shared by accept_task, reject_task, start_task and complete_task
TaskTransition(op, caller, task_id, status) ==
    IF ~Authenticated(caller)
    THEN /\ resp' = Response(op, caller, <<task_id>>, 401, Null)
         /\ UNCHANGED tasks
    ELSE /\ tasks' = UpdateTaskStatus(task_id, caller, status)
         /\ resp' = Response(op, caller, <<task_id>>, 200, Null)

\* POST /api/inspector/tasks/<int:task_id>/accept
accept_task(caller, task_id) ==
    /\ UNCHANGED <<ledger, signatures, now, rooms, inbox, inflight>>
    /\ TaskTransition("accept_task", caller, task_id, "accepted")

\* POST /api/inspector/tasks/<int:task_id>/reject
reject_task(caller, task_id) ==
    /\ UNCHANGED <<ledger, signatures, now, rooms, inbox, inflight>>
    /\ TaskTransition("reject_task", caller, task_id, "rejected")

\* POST /api/inspector/tasks/<int:task_id>/start
start_task(caller, task_id) ==
    /\ UNCHANGED <<ledger, signatures, now, rooms, inbox, inflight>>
    /\ TaskTransition("start_task", caller, task_id, "in_progress")

\* POST /api/inspector/tasks/<int:task_id>/complete
complete_task(caller, task_id) ==
    /\ UNCHANGED <<ledger, signatures, now, rooms, inbox, inflight>>
    /\ TaskTransition("complete_task", caller, task_id, "completed")

\* the sequences ORDER BY t.created_at DESC can give for the tasks with ids in S
OrderTasksByCreatedAtDesc(S) ==
    { q \in [1..Cardinality(S) -> S] :
        /\ \A i, j \in DOMAIN q : i # j => q[i] # q[j]
        /\ \A i, j \in DOMAIN q :
              i < j => tasks[q[i]].created_at >= tasks[q[j]].created_at }

\* GET /api/admin/tasks
get_admin_tasks(caller) ==
    /\ UNCHANGED <<ledger, signatures, tasks, now, rooms, inbox, inflight>>
    /\ IF ~Authenticated(caller)
       THEN resp' = Response("get_admin_tasks", caller, <<>>, 401, Null)
       ELSE \E q \in OrderTasksByCreatedAtDesc(DOMAIN tasks) :
              resp' = Response("get_admin_tasks", caller, <<>>, 200,
                               [i \in DOMAIN q |-> TaskWithNames(tasks[q[i]])])

\* GET /api/inspector/tasks and GET /api/my-tasks
get_inspector_tasks(caller) ==
    /\ UNCHANGED <<ledger, signatures, tasks, now, rooms, inbox, inflight>>
    /\ IF ~Authenticated(caller)
       THEN resp' = Response("get_inspector_tasks", caller, <<>>, 401, Null)
       ELSE \E q \in OrderTasksByCreatedAtDesc(
                        {i \in DOMAIN tasks : tasks[i].assigned_to_id = caller}) :
              resp' = Response("get_inspector_tasks", caller, <<>>, 200,
                               [i \in DOMAIN q |-> TaskWithNames(tasks[q[i]])])

(***************************************************************************)
(* Specifications.                                                         *)
(***************************************************************************)
Init ==
    /\ ledger = <<>>
    /\ signatures = <<>>
    /\ tasks = <<>>
    /\ now = ClockReadings[1]
    /\ resp = NoResponse
    /\ rooms = [r \in RoomNames |-> {}]
    /\ inbox = [c \in Sids |-> <<>>]
    /\ inflight = {}

\* ids a request may name: the rows there can be, and one more
SubmissionIds == 1..(MaxSubs + 1)
TaskIds == 1..(MaxTasks + 1)

\* the ledger writes of callers C on supplies S, corrections drawn from A and O
LedgerWrite(C, S, A, O) ==
    \/ \E c \in C, s \in S, d \in Payloads : submit_inspection(c, s, d, TRUE)
    \/ \E c \in C, i \in SubmissionIds, a \in A :
          update_sample_results(c, i, a[1], a[2])
    \/ \E c \in C, i \in SubmissionIds, d \in O : update_bacteriological(c, i, d)

RollupRead(C) ==
    \/ \E c \in C : get_monthly_data(c)
    \/ \E c \in C, p \in ReportPeriods : get_monthly_report(c, p[1], p[2])

ScanRead(C) ==
    \/ \E c \in C : get_supplies(c)
    \/ \E c \in C : get_my_submissions(c)
    \/ \E c \in C, s \in {Null} \cup {<<x>> : x \in SupplyIds}, n \in {1, 10} :
          get_submissions(c, s, n)
    \/ \E c \in C, i \in SubmissionIds : get_submission_details(c, i)
    \/ \E c \in C, s \in SupplyIds : get_sampling_points(c, s)

TaskWrite(C, P) ==
    \/ \E c \in C, d \in P : create_admin_task(c, d)
    \/ \E c \in C, i \in TaskIds : accept_task(c, i)
    \/ \E c \in C, i \in TaskIds : reject_task(c, i)
    \/ \E c \in C, i \in TaskIds : start_task(c, i)
    \/ \E c \in C, i \in TaskIds : complete_task(c, i)

TaskRead(C) ==
    \/ \E c \in C : get_admin_tasks(c)
    \/ \E c \in C : get_inspector_tasks(c)

\* the ledger of one inspector over time, and the rollups read from it
NextLedger ==
    \/ Tick
    \/ LedgerWrite({2}, SupplyIds, {<<3, 3>>, <<2, 3>>}, Overwrites)
    \/ RollupRead({2})
SpecLedger == Init /\ [][NextLedger]_vars

\* the corrections of one supply's submissions by every caller
NextCorrection ==
    LedgerWrite(Callers, {2}, Adds, Overwrites)
SpecCorrection == Init /\ [][NextCorrection]_vars

\* what every caller reads of the catalog and of the submitted rows
NextScan ==
    \/ \E c \in Callers, s \in SupplyIds, d \in Payloads :
          submit_inspection(c, s, d, TRUE)
    \/ RollupRead(Callers)
    \/ ScanRead(Callers)
SpecScan == Init /\ [][NextScan]_vars

\* the task table under create and the four transitions
NextTasks ==
    TaskWrite(Callers, {d \in TaskPayloads : d.supply_id = Null})
SpecTasks == Init /\ [][NextTasks]_vars

\* the task lists every caller reads
NextTaskLists ==
    \/ \E c \in Callers, d \in TaskPayloads : create_admin_task(c, d)
    \/ TaskRead(Callers)
SpecTaskLists == Init /\ [][NextTaskLists]_vars

\* the rooms as clients join and leave them
RoomEvents ==
    \/ \E c \in Sids, r \in RoomNames : on_join(c, r)
    \/ \E c \in Sids, r \in RoomNames : on_leave(c, r)

\* the rooms, and task creation by every caller
NextRooms ==
    \/ RoomEvents
    \/ \E c \in Callers, d \in {d \in TaskPayloads :
                                  d.supply_id = Null /\ d.inspector_id = 2} :
          create_admin_task(c, d)
SpecRooms == Init /\ [][NextRooms]_vars

\* the payload of the submissions whose events are followed
NotifyPayload == CHOOSE d \in Payloads : d.visits = 1

\* one inspector's submissions and the events they send to the rooms
NextNotify ==
    \/ RoomEvents
    \/ \E s \in {2, NoSuchSupply}, e \in BOOLEAN :
          submit_inspection(2, s, NotifyPayload, e)
SpecNotify == Init /\ [][NextNotify]_vars

\* submit requests served concurrently: each commits, then emits
NextRace ==
    \/ RoomEvents
    \/ \E c \in UserIds : submit_inspection_commit(c, 2, NotifyPayload)
    \/ \E i \in SubmissionIds, e \in BOOLEAN : submit_inspection_emit(i, e)
SpecRace == Init /\ [][NextRace]_vars

\* the payload with pending bacteriological samples
PendingPayload == CHOOSE d \in Payloads : d.bacteriological_pending > 0

\* corrections of one inspector's submissions served concurrently: each reads
\* the current values, then validates and writes
NextCorrectionRace ==
    \/ submit_inspection(2, 2, PendingPayload, TRUE)
    \/ \E t \in Threads, i \in SubmissionIds, a \in Adds :
          update_sample_results_read(t, 2, i, a[1], a[2])
    \/ \E t \in Threads : update_sample_results_write(t)
SpecCorrectionRace == Init /\ [][NextCorrectionRace]_vars

\* positive_add and negative_add as int() parses them: any integer of the body
SignedAdds == { <<-1, 0>>, <<0, -1>>, <<1, 1>> }

\* a JSON body of POST /api/submit-inspection whose visits is below zero
NegativePayload == [PendingPayload EXCEPT !.visits = -1]

\* the magnitude up to which the counts of a row are explored
MaxCount == 6

CountsExplored(submission_id) ==
    submission_id \in DOMAIN ledger =>
       \A c \in {"bacteriological_positive", "bacteriological_negative",
                 "bacteriological_pending"} :
          /\ ledger[submission_id][c] < MaxCount
          /\ ledger[submission_id][c] > -MaxCount

\* update_sample_results on a row whose counts are within the explored range
update_sample_results_explored(caller, submission_id, positive_add, negative_add) ==
    /\ CountsExplored(submission_id)
    /\ update_sample_results(caller, submission_id, positive_add, negative_add)

\* submissions and corrections whose numbers are any integers
NextSigned ==
    \/ \E d \in {PendingPayload, NegativePayload} :
          submit_inspection(2, 2, d, TRUE)
    \/ \E i \in SubmissionIds, a \in SignedAdds :
          update_sample_results_explored(2, i, a[1], a[2])
SpecSigned == Init /\ [][NextSigned]_vars

Next ==
    \/ Tick
    \/ RoomEvents
    \/ \E c \in Callers, s \in SupplyIds \cup {NoSuchSupply}, d \in Payloads :
          submit_inspection(c, s, d, FALSE)
    \/ LedgerWrite(Callers, SupplyIds \cup {NoSuchSupply}, Adds, Overwrites)
    \/ RollupRead(Callers)
    \/ ScanRead(Callers)
    \/ TaskWrite(Callers, TaskPayloads)
    \/ TaskRead(Callers)
Spec == Init /\ [][Next]_vars

(***************************************************************************)
(* Claims about the rollups (SpecLedger).                                  *)
(***************************************************************************)
CountColumns ==
    {"visits", "chlorine_total", "chlorine_positive", "chlorine_negative",
     "bacteriological_positive", "bacteriological_negative",
     "bacteriological_pending"}

\* the last request was a rollup that was answered
IsRollupResponse ==
    /\ resp.op \in {"get_monthly_data", "get_monthly_report"}
    /\ resp.status = 200

\* the rows a rollup response reports for supply X
ReportedRows(X) ==
    IF resp.op = "get_monthly_data"
    THEN IF X \in DOMAIN resp.body THEN {resp.body[X]} ELSE {}
    ELSE {resp.body.monthly_data[i] : i \in
            {j \in DOMAIN resp.body.monthly_data :
                resp.body.monthly_data[j].supply_id = X}}

\* the submissions of supply X dated in month/year
Contributors(led, X, year, month) ==
    {i \in DOMAIN led :
        /\ led[i].supply_id = X
        /\ led[i].submission_date.year = year
        /\ led[i].submission_date.month = month}

RECURSIVE LedgerSum(_, _, _)
\* the integer sum of column col over the rows S of led
LedgerSum(led, S, col) ==
    IF S = {} THEN 0
    ELSE LET i == CHOOSE x \in S : TRUE
         IN led[i][col] + LedgerSum(led, S \ {i}, col)

\* C1: every count a rollup reports for a supply and a month/year equals the
\* exact integer sum of that column over the ledger's submissions of that supply
\* dated in that month and year, corrected rows included.
C1_RollupIsSum ==
    IsRollupResponse =>
        \A X \in SupplyIds : \A row \in ReportedRows(X) : \A col \in CountColumns :
            row[col] = LedgerSum(ledger,
                                 Contributors(ledger, X, resp.args[1], resp.args[2]),
                                 col)

\* a report of two submissions of one supply, 2 + 1 visits and 5 + 3 chlorine
\* tests, one of them corrected from 5 pending to 4 positive and 4 negative
C1_Witness ==
    /\ IsRollupResponse
    /\ \E X \in SupplyIds : \E row \in ReportedRows(X) :
          /\ Cardinality(Contributors(ledger, X, resp.args[1], resp.args[2])) = 2
          /\ row.visits = 3
          /\ row.chlorine_total = 8
          /\ row.bacteriological_positive = 4
          /\ row.bacteriological_negative = 4
          /\ row.bacteriological_pending = 0

\* C2: a supply of the catalog with no submission in the requested month/year
\* is still in the all-supplies rollup, every count 0 and last_updated null.
C2_ZeroRowPresent ==
    IsRollupResponse =>
        \A X \in SupplyIds :
            /\ ReportedRows(X) # {}
            /\ Contributors(ledger, X, resp.args[1], resp.args[2]) = {} =>
                  \A row \in ReportedRows(X) :
                      /\ \A col \in CountColumns : row[col] = 0
                      /\ row.last_updated = Null

\* a rollup in which one supply has submissions and another has none
C2_Witness ==
    /\ IsRollupResponse
    /\ \E X, Y \in SupplyIds :
          /\ Contributors(ledger, X, resp.args[1], resp.args[2]) = {}
          /\ Contributors(ledger, Y, resp.args[1], resp.args[2]) # {}
          /\ \E row \in ReportedRows(X) : row.visits = 0
          /\ \E row \in ReportedRows(Y) : row.visits > 0

\* the rows of a query result for supply Y
RowsOf(rows, Y) == {rows[i] : i \in {j \in DOMAIN rows : rows[j].supply_id = Y}}

\* C3: appending a submission of supply X dated (m', y') leaves the rollup of
\* every other (supply, month, year) as it was.
C3_SubmitFrame ==
    [][Len(ledger') = Len(ledger) + 1 =>
         LET r == ledger'[Len(ledger')]
         IN \A Y \in SupplyIds : \A p \in ReportPeriods :
               (Y # r.supply_id \/
                p # <<r.submission_date.year, r.submission_date.month>>) =>
                  /\ RowsOf(MonthlyReportQuery(ledger', p[2], p[1]), Y)
                       = RowsOf(MonthlyReportQuery(ledger, p[2], p[1]), Y)
                  /\ RowsOf(MonthlyDataQuery(ledger', p[2], p[1]), Y)
                       = RowsOf(MonthlyDataQuery(ledger, p[2], p[1]), Y)]_vars

\* a submission of April 2025 accepted for a supply that has one of March 2025
C3_Witness ==
    /\ resp.op = "submit_inspection"
    /\ resp.status = 200
    /\ Len(ledger) = 2
    /\ ledger[1].supply_id = ledger[2].supply_id
    /\ ledger[1].submission_date = [year |-> 2025, month |-> 3]
    /\ ledger[2].submission_date = [year |-> 2025, month |-> 4]
    /\ resp.body.id = 2

\* C4: a rollup call changes no ledger, signature or task row, and a rollup
\* call that directly follows the same call (same caller, month and year, no
\* write in between) returns the identical result.
C4_RollupIdempotent ==
    [][(resp'.op \in {"get_monthly_data", "get_monthly_report"} /\ resp'.status = 200)
          => /\ ledger' = ledger
             /\ signatures' = signatures
             /\ tasks' = tasks
             /\ (resp.op = resp'.op /\ resp.status = 200 /\ resp.caller = resp'.caller
                 /\ resp.args = resp'.args) => resp'.body = resp.body]_vars

\* a rollup answered from a ledger that holds submissions
C4_Witness ==
    /\ IsRollupResponse
    /\ Len(ledger) = 2
    /\ \E X \in SupplyIds : \E row \in ReportedRows(X) : row.visits > 0

(***************************************************************************)
(* Claims about the caller's scope (SpecScan).                             *)
(***************************************************************************)
\* the parishes of the Supply, Submission and Task rows in the last response
\* (a task belongs to the parish of its supply, or of its assignee when it
\* names no supply)
ParishesInResponse ==
    CASE resp.op = "get_supplies" ->
            {resp.body[i].parish : i \in DOMAIN resp.body}
      [] resp.op = "get_monthly_data" ->
            {water_supplies[s].parish : s \in DOMAIN resp.body}
      [] resp.op = "get_monthly_report" ->
            {resp.body.supplies[i].parish : i \in DOMAIN resp.body.supplies}
            \cup {water_supplies[resp.body.monthly_data[i].supply_id].parish :
                     i \in DOMAIN resp.body.monthly_data}
      [] resp.op \in {"get_my_submissions", "get_submissions"} ->
            {resp.body[i].parish : i \in DOMAIN resp.body}
      [] resp.op = "get_submission_details" -> {resp.body.parish}
      [] resp.op \in {"get_admin_tasks", "get_inspector_tasks"} ->
            {IF resp.body[i].supply_parish = Null THEN resp.body[i].assignee_parish
             ELSE resp.body[i].supply_parish[1] : i \in DOMAIN resp.body}
      [] OTHER -> {}

\* C5: no read answered to a non-admin caller of parish P holds a Supply,
\* Submission or Task of another parish.
C5_Tenancy ==
    (/\ resp.status = 200
     /\ Authenticated(resp.caller)
     /\ users[resp.caller].role # "admin")
        => ParishesInResponse \subseteq {users[resp.caller].parish}

\* C6: the supplies list answered to an admin holds every supply of the
\* catalog, whatever the admin's own parish.
C6_AdminSeesAllSupplies ==
    (/\ resp.op = "get_supplies"
     /\ resp.status = 200
     /\ users[resp.caller].role = "admin")
        => {resp.body[i].id : i \in DOMAIN resp.body} = SupplyIds

(***************************************************************************)
(* Claims about the bacteriological correction (SpecCorrection).           *)
(***************************************************************************)
\* C7: a correction whose positiveAdd + negativeAdd exceeds the submission's
\* current pending count is not accepted and leaves the ledger as it was; to
\* the submitting inspector it is answered with the validation error (400).
C7_OverLimitRejected ==
    [][(/\ resp'.op = "update_sample_results"
        /\ resp'.args[1] \in DOMAIN ledger
        /\ resp'.args[2] + resp'.args[3]
              > ledger[resp'.args[1]].bacteriological_pending)
          => /\ ledger' = ledger
             /\ resp'.status # 200
             /\ ledger[resp'.args[1]].inspector_id = resp'.caller
                   => resp'.status = 400]_vars

\* pending 5, positive 2, negative 1 and adds 3 and 3: refused with 400, the row
\* still 5/2/1
C7_Witness ==
    /\ resp.op = "update_sample_results"
    /\ resp.status = 400
    /\ resp.args = <<1, 3, 3>>
    /\ ledger[1].bacteriological_pending = 5
    /\ ledger[1].bacteriological_positive = 2
    /\ ledger[1].bacteriological_negative = 1

\* C8: a correction by the submitting inspector with positiveAdd + negativeAdd
\* <= pending succeeds with positive' = positive + positiveAdd, negative' =
\* negative + negativeAdd, pending' = pending - (positiveAdd + negativeAdd); when
\* the sum equals pending, pending' = 0.
C8_CorrectionApplied ==
    [][(/\ resp'.op = "update_sample_results"
        /\ resp'.args[1] \in DOMAIN ledger
        /\ ledger[resp'.args[1]].inspector_id = resp'.caller
        /\ resp'.args[2] + resp'.args[3]
              <= ledger[resp'.args[1]].bacteriological_pending)
          => LET old == ledger[resp'.args[1]]
                 new == ledger'[resp'.args[1]]
             IN /\ resp'.status = 200
                /\ new.bacteriological_positive
                     = old.bacteriological_positive + resp'.args[2]
                /\ new.bacteriological_negative
                     = old.bacteriological_negative + resp'.args[3]
                /\ new.bacteriological_pending
                     = old.bacteriological_pending
                         - (resp'.args[2] + resp'.args[3])
                /\ resp'.args[2] + resp'.args[3] = old.bacteriological_pending
                     => new.bacteriological_pending = 0]_vars

\* adds 2 and 3 accepted on pending 5, positive 2, negative 1: now 0/4/4
C8_Witness ==
    /\ resp.op = "update_sample_results"
    /\ resp.status = 200
    /\ resp.args = <<1, 2, 3>>
    /\ ledger[1].bacteriological_pending = 0
    /\ ledger[1].bacteriological_positive = 4
    /\ ledger[1].bacteriological_negative = 4

(***************************************************************************)
(* Claims about the tasks (SpecTasks).                                     *)
(***************************************************************************)
\* C9: creating a task yields a new task whose status is pending, and the
\* create call answers success together with the created task.
C9_CreateReportsSuccess ==
    [][Len(tasks') = Len(tasks) + 1
          => /\ tasks'[Len(tasks')].status = "pending"
             /\ resp'.op = "create_admin_task"
             /\ resp'.status = 200
             /\ resp'.body.id = Len(tasks')]_vars

TransitionOps == {"accept_task", "reject_task", "start_task", "complete_task"}

\* C10: an accept, reject, start or complete call by a caller who is not the
\* task's assignee leaves the task's status unchanged.
C10_OnlyAssigneeAdvances ==
    [][resp'.op \in TransitionOps
          => \A i \in DOMAIN tasks :
                tasks[i].assigned_to_id # resp'.caller
                   => tasks'[i].status = tasks[i].status]_vars

\* an accept of a task by a user it is not assigned to was answered, and the
\* task is still pending
C10_Witness ==
    /\ resp.op = "accept_task"
    /\ resp.status = 200
    /\ resp.args[1] \in DOMAIN tasks
    /\ tasks[resp.args[1]].assigned_to_id # resp.caller
    /\ tasks[resp.args[1]].status = "pending"

\* C11: an accept by an authenticated caller who is not the task's assignee is
\* answered Forbidden (403), not success.
C11_NonAssigneeForbidden ==
    [][(/\ resp'.op = "accept_task"
        /\ Authenticated(resp'.caller)
        /\ resp'.args[1] \in DOMAIN tasks
        /\ tasks[resp'.args[1]].assigned_to_id # resp'.caller)
          => resp'.status = 403]_vars

(***************************************************************************)
(* Claims about task creation and the rooms (SpecRooms).                   *)
(***************************************************************************)
\* C12: a create-task request of an authenticated caller who is not an admin is
\* rejected (403), adds no task and sends no event.
C12_OnlyAdminCreates ==
    [][(/\ resp'.op = "create_admin_task"
        /\ Authenticated(resp'.caller)
        /\ users[resp'.caller].role # "admin")
          => /\ resp'.status = 403
             /\ tasks' = tasks
             /\ inbox' = inbox]_vars

\* the inspector's create request was refused while a client was listening in
\* room 'admin': no task, no event
C12_Witness ==
    /\ resp.op = "create_admin_task"
    /\ resp.caller = 2
    /\ resp.status = 403
    /\ rooms[EmitRoom] # {}
    /\ tasks = <<>>
    /\ \A c \in Sids : inbox[c] = <<>>

(***************************************************************************)
(* Claims about the submit write and its event (SpecNotify).               *)
(***************************************************************************)
\* this step committed a new submission row
Committed == Len(ledger') = Len(ledger) + 1

\* C13: a submission that is committed is answered with success whether or not
\* the new_submission broadcast that follows the commit fails.
C13_EmitNeverFailsWrite ==
    [][(Committed /\ ledger'[Len(ledger')].supply_id \in SupplyIds)
          => /\ resp'.op = "submit_inspection"
             /\ resp'.status = 200]_vars

\* C14: a submit call that is answered with an error leaves no submission row
\* and no signature row behind.
C14_AllOrNothing ==
    [][(resp'.op = "submit_inspection" /\ resp'.status # 200)
          => /\ ledger' = ledger
             /\ signatures' = signatures]_vars

\* C15: a submission whose supply_id is not in the catalog is rejected with
\* NotFound (404) and is not appended to the ledger.
C15_UnknownSupplyNotFound ==
    [][(/\ resp'.op = "submit_inspection"
        /\ Authenticated(resp'.caller)
        /\ resp'.args[1] \notin SupplyIds)
          => /\ resp'.status = 404
             /\ ledger' = ledger]_vars

\* C17: a client's inbox only grows, by one event at a time, only while the
\* client is in the emit's room, and only by the event of the row written in
\* that very step: no event is delivered twice, none to a client outside the
\* room, and none to a client that joins after the emission.
C17_AtMostOnceNoReplay ==
    [][\A c \in Sids :
          inbox'[c] # inbox[c]
             => /\ c \in rooms[EmitRoom]
                /\ Committed
                /\ inbox'[c] = Append(inbox[c],
                      [event |-> "new_submission",
                       data |-> SubmissionWithSupply(ledger'[Len(ledger')])])
                /\ \A i \in DOMAIN inbox[c] :
                      inbox[c][i].data.id # Len(ledger')]_vars

\* client 11 received the event of a submission; client 12 is in room 'admin'
\* now but was not when that event was emitted, and has received nothing
C17_Witness ==
    /\ Len(inbox[11]) = 1
    /\ inbox[11][1].data.id = 1
    /\ 12 \in rooms[EmitRoom]
    /\ inbox[12] = <<>>
    /\ resp.op = "on_join"

\* C20: the event of a committed submission is delivered to every client that
\* is in the room named after the writer's parish.
C20_WriterParishNotified ==
    [][(/\ Committed
        /\ resp'.op = "submit_inspection"
        /\ resp'.status = 200
        /\ users[resp'.caller].parish \in RoomNames)
          => \A c \in rooms[users[resp'.caller].parish] :
                inbox'[c] = Append(inbox[c],
                               [event |-> "new_submission",
                                data |-> resp'.body])]_vars

(***************************************************************************)
(* Claims about the rooms (SpecRooms).                                     *)
(***************************************************************************)
\* C19: a join puts the client in the room and a leave takes it out, neither
\* touches any other (client, room) membership, a join of a member and a leave
\* of a non-member change nothing, and no other operation changes a room; so
\* each client's membership is the effect of its own last join or leave.
C19_RoomMembership ==
    [][LET c == resp'.caller
           r == resp'.args[1]
       IN /\ resp'.op = "on_join"
             => /\ c \in rooms'[r]
                /\ c \in rooms[r] => rooms' = rooms
          /\ resp'.op = "on_leave"
             => /\ c \notin rooms'[r]
                /\ c \notin rooms[r] => rooms' = rooms
          /\ resp'.op \in {"on_join", "on_leave"}
             => \A d \in Sids, q \in RoomNames :
                   (d # c \/ q # r) => ((d \in rooms'[q]) <=> (d \in rooms[q]))
          /\ resp'.op \notin {"on_join", "on_leave"} => rooms' = rooms]_vars

\* client 11 has just left room 'admin'; it is still in room 'Trelawny' and
\* client 12 is still in room 'admin'
C19_Witness ==
    /\ resp.op = "on_leave"
    /\ resp.caller = 11
    /\ resp.args = <<"admin">>
    /\ 11 \notin rooms["admin"]
    /\ 11 \in rooms["Trelawny"]
    /\ 12 \in rooms["admin"]

(***************************************************************************)
(* Claims about concurrent submit requests (SpecRace).                     *)
(***************************************************************************)
\* C18: every client receives the events of the submissions in the order in
\* which the submissions were committed (the order of their row ids).
C18_CommitOrderDelivery ==
    \A c \in Sids :
       \A i, j \in DOMAIN inbox[c] :
          i < j => inbox[c][i].data.id < inbox[c][j].data.id

(***************************************************************************)
(* Claims about requests without a session (SpecScan).                     *)
(***************************************************************************)
\* C16: a request without a session is answered Unauthorized (401) with no
\* data, and changes no table.
C16_NoSessionUnauthorized ==
    [][(resp'.op \notin {"none", "on_join", "on_leave"} /\ resp'.caller = Anon)
          => /\ resp'.status = 401
             /\ resp'.body = Null
             /\ UNCHANGED <<ledger, signatures, tasks>>]_vars

(***************************************************************************)
(* Claims about the ledger rows under corrections (SpecCorrection).        *)
(***************************************************************************)
\* the count columns of inspection_submissions that no rollup query sums
OtherCountColumns ==
    {"bacteriological_rejected", "bacteriological_broken",
     "ph_satisfactory", "ph_non_satisfactory",
     "chemical_satisfactory", "chemical_non_satisfactory",
     "turbidity_satisfactory", "turbidity_non_satisfactory",
     "temperature_satisfactory", "temperature_non_satisfactory"}

\* C22 (SpecLedger): a rollup row also carries, for each of the rejected,
\* broken, pH, chemical, turbidity and temperature count columns, the sum of
\* that column over the contributing submissions.
C22_RollupSumsEveryCount ==
    IsRollupResponse =>
        \A X \in SupplyIds : \A row \in ReportedRows(X) :
            \A col \in OtherCountColumns :
                /\ col \in DOMAIN row
                /\ row[col] = LedgerSum(ledger,
                       Contributors(ledger, X, resp.args[1], resp.args[2]), col)

\* C23 (SpecCorrectionRace): under every interleaving of the read and write
\* steps of concurrent corrections, a row changes only by an accepted
\* correction whose adds do not exceed the pending value it overwrites, and the
\* row after it is the overwritten row plus the adds: no delta is lost.
C23_CorrectionsSerialized ==
    [][\A i \in DOMAIN ledger :
          ledger'[i] # ledger[i]
             => /\ resp'.op = "update_sample_results"
                /\ resp'.status = 200
                /\ resp'.args[1] = i
                /\ resp'.args[2] + resp'.args[3]
                      <= ledger[i].bacteriological_pending
                /\ ledger'[i].bacteriological_positive
                      = ledger[i].bacteriological_positive + resp'.args[2]
                /\ ledger'[i].bacteriological_negative
                      = ledger[i].bacteriological_negative + resp'.args[3]
                /\ ledger'[i].bacteriological_pending
                      = ledger[i].bacteriological_pending
                          - (resp'.args[2] + resp'.args[3])]_vars

\* the operations that act on one submission named by its id
SubmissionOps ==
    {"get_submission_details", "update_sample_results", "update_bacteriological"}

\* C21: a submission operation of an authenticated caller on a submission that
\* exists but was submitted by someone else is answered NotFound (404), as for
\* an id that does not exist.
C21_ScopeViolationIsNotFound ==
    [][(/\ resp'.op \in SubmissionOps
        /\ Authenticated(resp'.caller)
        /\ resp'.args[1] \in DOMAIN ledger
        /\ ledger[resp'.args[1]].inspector_id # resp'.caller)
          => resp'.status = 404]_vars

\* C24: every submission's stored bacteriological_status agrees with its
\* counts: 'pending' when pending > 0 or positive + negative = 0, 'complete'
\* when positive + negative > 0 and pending = 0.
C24_StatusAgreesWithCounts ==
    \A i \in DOMAIN ledger :
       LET r == ledger[i]
           results == r.bacteriological_positive + r.bacteriological_negative
       IN /\ (r.bacteriological_pending > 0 \/ results = 0)
                => r.bacteriological_status = "pending"
          /\ (results > 0 /\ r.bacteriological_pending = 0)
                => r.bacteriological_status = "complete"

\* row new is row old after a bounded result amendment: some positive and
\* negative results, together at most old's pending, moved out of pending, and
\* nothing else changed
BoundedAmendment(old, new) ==
    \E pa, na \in 0..old.bacteriological_pending :
       /\ pa + na <= old.bacteriological_pending
       /\ new = [old EXCEPT
                   !.bacteriological_positive = @ + pa,
                   !.bacteriological_negative = @ + na,
                   !.bacteriological_pending = @ - (pa + na)]

\* C26: an existing submission is never deleted, and changes only by a bounded
\* result amendment.
C26_ImmutableButAmendment ==
    [][/\ Len(ledger') >= Len(ledger)
       /\ \A i \in DOMAIN ledger :
             ledger'[i] # ledger[i]
                => /\ ledger[i].bacteriological_pending >= 0
                   /\ BoundedAmendment(ledger[i], ledger'[i])]_vars

\* positive + negative + pending of a submission row
TestTotal(r) ==
    r.bacteriological_positive + r.bacteriological_negative
        + r.bacteriological_pending

AllCountColumns ==
    CountColumns \cup OtherCountColumns

\* C25: every count field of every submission is a non-negative integer,
\* whatever payloads and corrections were accepted.
C25_CountsNonNegative ==
    \A i \in DOMAIN ledger : \A c \in AllCountColumns : ledger[i][c] >= 0

(***************************************************************************)
(* Claims about the order of task transitions (SpecTasks).                 *)
(***************************************************************************)
\* the edges of the task state machine
TaskEdges ==
    { <<"pending", "accepted">>, <<"accepted", "in_progress">>,
      <<"in_progress", "completed">>, <<"pending", "rejected">> }

\* C27: a task's status changes only along pending -> accepted -> in_progress
\* -> completed and pending -> rejected; in particular a completed or rejected
\* task keeps its status.
C27_OnlyTaskEdges ==
    [][\A i \in DOMAIN tasks :
          tasks'[i].status # tasks[i].status
             => <<tasks[i].status, tasks'[i].status>> \in TaskEdges]_vars

(***************************************************************************)
(* Claims about the outcome of task creation and about who listens         *)
(* (SpecRooms, SpecNotify).                                                *)
(***************************************************************************)
\* C29: a create-task call answered with an error added no task row, and a
\* call that added a task row is answered success and sends exactly one
\* new_task event to the members of room 'admin'.
C29_CreateAllOrNothing ==
    [][resp'.op = "create_admin_task"
          => /\ resp'.status # 200 => tasks' = tasks
             /\ tasks' # tasks
                   => /\ resp'.status = 200
                      /\ \A c \in rooms[EmitRoom] :
                            /\ Len(inbox'[c]) = Len(inbox[c]) + 1
                            /\ inbox'[c][Len(inbox'[c])].event = "new_task"]_vars

\* C30: only clients whose session is an admin's are members of room 'admin',
\* and only they have received events.
C30_OnlyEntitledListen ==
    \A c \in Sids :
       (c \in rooms[EmitRoom] \/ inbox[c] # <<>>) => IsAdmin(SessionOf[c])

====
